---- MODULE Spec2Model ----
(***************************************************************************)
(* State-machine model of the Star Wars API wrapper's core:                *)
(*   - CacheService  (src/services/cache_service.py): an in-memory table   *)
(*     of entries with a TTL, access accounting and a lazy expiry sweep;   *)
(*   - SWAPIService  (src/services/swapi_service.py): read-through         *)
(*     operations over the cache, an upstream request primitive with       *)
(*     retries, and a concurrent fan-out over child references.            *)
(*                                                                         *)
(* Time is the value time.time() returns, in whole seconds.  A handler    *)
(* that does not suspend reads one clock value: the coroutine runs to its  *)
(* next suspension point without the event loop getting control.           *)
(***************************************************************************)
EXTENDS Integers, Sequences, FiniteSets, TLC

VARIABLES
    cache,      \* CacheService._cache: key -> entry (a dict; DOMAIN = keys present)
    now,        \* the wall clock, time.time()
    ret,        \* the last CacheService call made by the endpoint layer and what it returned
    written,    \* history: per key, the last set() not followed by delete()/clear(),
                \* and the hits of the endpoint layer's get() on its entry
    calls,      \* per caller: the SWAPIService coroutine it runs and where it stands
    started,    \* number of SWAPIService operations started so far
    snapshot,   \* history: per caller, the table as its operation found it
    batch       \* CacheService calls in progress at once, one coroutine each

vars == <<cache, now, ret, written, calls, started, snapshot, batch>>

(***************************************************************************)
(* Bounds of the model and constants of the program                        *)
(***************************************************************************)
\* the clock is observed at 0..MaxTick and at DEFAULT_TTL + 0..MaxTick
MaxTick == 2
\* a get() is not issued on an entry that was already hit MaxAccess times
MaxAccess == 2
\* CacheService.__init__(default_ttl=300)
DEFAULT_TTL == 300

None == <<>>
Some(x) == <<x>>

Times == (0..MaxTick) \cup {DEFAULT_TTL + t : t \in 0..MaxTick}

(***************************************************************************)
(* CacheService                                                            *)
(***************************************************************************)
\* a faulty variant, for comparison: it reads the boundary instant as expired
is_expired_ge(cache_entry, current_time) == current_time >= cache_entry.expires_at

\* _is_expired: current_time > cache_entry["expires_at"]
is_expired(cache_entry, current_time) == current_time > cache_entry.expires_at

\* a faulty variant, for comparison: it sweeps nothing
cleanup_none(c, current_time) == c

\* a faulty variant, for comparison: it sweeps every entry, expired or not
cleanup_all(c, current_time) == [k \in {} |-> k]

\* _cleanup_expired: delete every key whose entry has current_time > expires_at
cleanup_expired(c, current_time) ==
    [k \in {key \in DOMAIN c : ~(current_time > c[key].expires_at)} |-> c[k]]

\* a faulty variant, for comparison: a hit leaves the entry as it is
get_cache_uncounted(c, key, t) ==
    LET swept == cleanup_expired(c, t) IN
    IF key \notin DOMAIN swept
      THEN swept
      ELSE IF is_expired(swept[key], t)
             THEN [k \in DOMAIN swept \ {key} |-> swept[k]]
             ELSE swept

\* a faulty variant, for comparison: it looks at the entry of the key only, and sweeps no other
get_cache_own_key(c, key, t) ==
    IF key \notin DOMAIN c
      THEN c
      ELSE IF is_expired(c[key], t)
             THEN [k \in DOMAIN c \ {key} |-> c[k]]
             ELSE [c EXCEPT ![key].access_count = @ + 1,
                            ![key].last_accessed = Some(t)]

\* get(): the table after the call
get_cache(c, key, t) ==
    LET swept == cleanup_expired(c, t) IN
    IF key \notin DOMAIN swept
      THEN swept
      ELSE IF is_expired(swept[key], t)
             THEN [k \in DOMAIN swept \ {key} |-> swept[k]]
             ELSE [swept EXCEPT ![key].access_count = @ + 1,
                                ![key].last_accessed = Some(t)]

\* get(): the value returned, None for a miss
get_value(c, key, t) ==
    LET swept == cleanup_expired(c, t) IN
    IF key \notin DOMAIN swept
      THEN None
      ELSE IF is_expired(swept[key], t) THEN None ELSE Some(swept[key].data)

\* a faulty variant, for comparison: its expiry is the ttl, not an instant
new_entry_abs(value, ttl, current_time) ==
    [data          |-> value,
     created_at    |-> current_time,
     expires_at    |-> ttl,
     access_count  |-> 0,
     last_accessed |-> None,
     ttl           |-> ttl]

\* the entry set() stores
new_entry(value, ttl, current_time) ==
    [data          |-> value,
     created_at    |-> current_time,
     expires_at    |-> current_time + ttl,
     access_count  |-> 0,
     last_accessed |-> None,
     ttl           |-> ttl]

\* a faulty variant, for comparison: it keeps the accounting of the entry it overwrites
set_cache_keep(c, key, value, ttl, t) ==
    LET eff == IF ttl = None THEN DEFAULT_TTL ELSE ttl[1] IN
    [k \in DOMAIN c \cup {key} |->
        IF k # key THEN c[k]
        ELSE IF key \in DOMAIN c
          THEN [new_entry(value, eff, t) EXCEPT !.access_count = c[key].access_count,
                                                !.last_accessed = c[key].last_accessed]
          ELSE new_entry(value, eff, t)]

\* set(): the table after the call; ttl = None stands for the omitted argument
set_cache(c, key, value, ttl, t) ==
    LET eff == IF ttl = None THEN DEFAULT_TTL ELSE ttl[1] IN
    [k \in DOMAIN c \cup {key} |->
        IF k = key THEN new_entry(value, eff, t) ELSE c[k]]

\* a faulty variant, for comparison: it reports and leaves the entry
delete_cache_none(c, key) == c

\* delete(): the table after the call, and the value returned
delete_cache(c, key) == [k \in DOMAIN c \ {key} |-> c[k]]
delete_value(c, key) == key \in DOMAIN c

\* a faulty variant, for comparison: it removes nothing
clear_cache_noop(c) == c

\* clear(): the empty table
clear_cache(c) == [k \in {} |-> k]

\* a faulty variant, for comparison: it counts the table before the sweep
stats_value_unswept(c, t) ==
    LET swept == cleanup_expired(c, t) IN
    [total_entries |-> Cardinality(DOMAIN c),
     default_ttl   |-> DEFAULT_TTL,
     entries       |-> [k \in DOMAIN swept |->
        [created_at    |-> swept[k].created_at,
         expires_at    |-> swept[k].expires_at,
         remaining_ttl |-> IF swept[k].expires_at - t > 0
                             THEN swept[k].expires_at - t ELSE 0,
         access_count  |-> swept[k].access_count,
         last_accessed |-> swept[k].last_accessed]]]

\* get_stats(): the dict returned, computed on the swept table
stats_value(c, t) ==
    LET swept == cleanup_expired(c, t) IN
    [total_entries |-> Cardinality(DOMAIN swept),
     default_ttl   |-> DEFAULT_TTL,
     entries       |-> [k \in DOMAIN swept |->
        [created_at    |-> swept[k].created_at,
         expires_at    |-> swept[k].expires_at,
         remaining_ttl |-> IF swept[k].expires_at - t > 0
                             THEN swept[k].expires_at - t ELSE 0,
         access_count  |-> swept[k].access_count,
         last_accessed |-> swept[k].last_accessed]]]

\* health_check(): the dict returned, computed on the swept table
health_value(c, t) ==
    [status         |-> "healthy",
     active_entries |-> Cardinality(DOMAIN cleanup_expired(c, t)),
     default_ttl    |-> DEFAULT_TTL,
     timestamp      |-> t]

(***************************************************************************)
(* The endpoint layer's direct use of the CacheService                     *)
(***************************************************************************)
\* keys and values the cache is exercised with
TestKeys == {<<"films_all">>, <<"film_", "1", "_characters">>}
TestValues == {<<>>, <<[name |-> 1, film_count |-> 0]>>}
TestTTLs == {None, Some(1)}

NoCall == [op |-> "none", key |-> <<>>, value |-> None, at |-> 0]

\* the history, once the table is c: the hits are those on the entry that is
\* in the table, none when the table has no entry of the key
counted(w, c) ==
    [k \in DOMAIN w |-> IF k \in DOMAIN c THEN w[k] ELSE [w[k] EXCEPT !.hits = 0]]

\* await cache_service.get(key)
CacheGet(key) ==
    /\ key \in DOMAIN cache => cache[key].access_count < MaxAccess
    /\ cache' = get_cache(cache, key, now)
    /\ ret' = [op |-> "get", key |-> key, value |-> get_value(cache, key, now), at |-> now]
    /\ written' = counted(IF get_value(cache, key, now) # None /\ key \in DOMAIN written
                             THEN [written EXCEPT ![key].hits = @ + 1]
                             ELSE written,
                           cache')
    /\ UNCHANGED <<now, calls, started, snapshot, batch>>

\* await cache_service.set(key, value, ttl)
CacheSet(key, value, ttl) ==
    /\ cache' = set_cache(cache, key, value, ttl, now)
    /\ ret' = [op |-> "set", key |-> key, value |-> None, at |-> now]
    /\ written' = [k \in DOMAIN written \cup {key} |->
                     IF k = key
                       THEN [value |-> value, at |-> now, hits |-> 0,
                             ttl |-> IF ttl = None THEN DEFAULT_TTL ELSE ttl[1]]
                       ELSE written[k]]
    /\ UNCHANGED <<now, calls, started, snapshot, batch>>

\* await cache_service.delete(key)
CacheDelete(key) ==
    /\ cache' = delete_cache(cache, key)
    /\ ret' = [op |-> "delete", key |-> key, value |-> Some(delete_value(cache, key)), at |-> now]
    /\ written' = [k \in DOMAIN written \ {key} |-> written[k]]
    /\ UNCHANGED <<now, calls, started, snapshot, batch>>

\* await cache_service.clear(); close() only awaits clear()
CacheClear ==
    /\ cache' = clear_cache(cache)
    /\ ret' = [op |-> "clear", key |-> <<>>, value |-> None, at |-> now]
    /\ written' = clear_cache(written)
    /\ UNCHANGED <<now, calls, started, snapshot, batch>>

\* await cache_service.get_stats()
CacheStats ==
    /\ cache' = cleanup_expired(cache, now)
    /\ ret' = [op |-> "get_stats", key |-> <<>>, value |-> Some(stats_value(cache, now)), at |-> now]
    /\ written' = counted(written, cache')
    /\ UNCHANGED <<now, calls, started, snapshot, batch>>

\* await cache_service.health_check()
CacheHealth ==
    /\ cache' = cleanup_expired(cache, now)
    /\ ret' = [op |-> "health_check", key |-> <<>>, value |-> Some(health_value(cache, now)), at |-> now]
    /\ written' = counted(written, cache')
    /\ UNCHANGED <<now, calls, started, snapshot, batch>>

\* the clock moves on to a later instant
Tick(t) ==
    /\ t > now
    /\ now' = t
    /\ UNCHANGED <<cache, ret, written, calls, started, snapshot, batch>>

(***************************************************************************)
(* CacheService calls in progress at once                                  *)
(*                                                                         *)
(* Each call is a coroutine of the event loop.  get(), set() and delete()  *)
(* do their work inside `async with self._lock`, and no await stands       *)
(* inside that block: the lock is free whenever the event loop has         *)
(* control, acquire() of a free asyncio.Lock does not suspend, and a       *)
(* coroutine the loop picks runs from its first statement to its return.   *)
(***************************************************************************)
\* the key the concurrent calls share, and how many of them there are
ConcKey == <<"films_all">>
MaxTasks == 3

\* the calls: get(key), delete(key), set(key, value) and set(key, value, ttl),
\* the two set() with values that differ
ConcOps ==
    {[op |-> "get", value |-> <<>>, ttl |-> None],
     [op |-> "delete", value |-> <<>>, ttl |-> None],
     [op |-> "set", value |-> <<>>, ttl |-> None],
     [op |-> "set", value |-> <<[name |-> 1, film_count |-> 0]>>, ttl |-> Some(1)]}

\* no call was made; a call that was made and is not scheduled yet: the table
\* at that moment is `seen`; lock is the coroutine that holds self._lock, 0
\* when it is free
NoBatch == [tasks |-> <<>>, order |-> <<>>, lock |-> 0]
new_task(o, c) ==
    [op |-> o.op, value |-> o.value, ttl |-> o.ttl, pc |-> "pending",
     ret |-> None, at |-> 0, seen |-> c]

\* a faulty variant, for comparison: it works on the table as it was when the call was made
section_table_stale(c, task) == task.seen

\* self._cache inside `async with self._lock`: the table as it is
section_table(c, task) == c

\* the body of a call, on table c at time t: the table it leaves
body_cache(c, task, t) ==
    IF task.op = "get" THEN get_cache(c, ConcKey, t)
    ELSE IF task.op = "set" THEN set_cache(c, ConcKey, task.value, task.ttl, t)
    ELSE IF task.op = "clear" THEN clear_cache(c)
    ELSE IF task.op \in {"get_stats", "health_check"} THEN cleanup_expired(c, t)
    ELSE delete_cache(c, ConcKey)

\* the body of a call, on table c at time t: the value it returns
body_value(c, task, t) ==
    IF task.op = "get" THEN get_value(c, ConcKey, t)
    ELSE IF task.op = "set" THEN None
    ELSE IF task.op = "clear" THEN None
    ELSE IF task.op = "get_stats" THEN Some(stats_value(c, t))
    ELSE IF task.op = "health_check" THEN Some(health_value(c, t))
    ELSE Some(delete_value(c, ConcKey))

\* asyncio.create_task(cache_service.get/set/delete(...)): one more coroutine
Submit(o) ==
    /\ Len(batch.tasks) < MaxTasks
    /\ batch' = [batch EXCEPT !.tasks = Append(@, new_task(o, cache))]
    /\ UNCHANGED <<cache, now, ret, written, calls, started, snapshot>>

\* the event loop picks coroutine i, which runs to its return
Run(i) ==
    /\ i \in 1..Len(batch.tasks)
    /\ batch.tasks[i].pc = "pending"
    /\ LET task == batch.tasks[i]
           c == section_table(cache, task)
       IN  /\ cache' = body_cache(c, task, now)
           /\ batch' = [batch EXCEPT !.tasks[i].pc = "done",
                                     !.tasks[i].ret = body_value(c, task, now),
                                     !.tasks[i].at = now,
                                     !.order = Append(@, i)]
    /\ UNCHANGED <<now, ret, written, calls, started, snapshot>>

\* the six operations that take self._lock
LockOps ==
    ConcOps \cup {[op |-> o, value |-> <<>>, ttl |-> None] :
                     o \in {"clear", "get_stats", "health_check"}}

\* a faulty variant, for comparison: get() awaits inside its `async with` block
suspends_inside_get(op) == op = "get"

\* whether the block under `async with self._lock` of an operation holds an
\* await: none does
suspends_inside(op) == FALSE

\* the event loop picks coroutine i, which runs to its next suspension point
\* or to its return. `async with self._lock` awaits lock.acquire(), which
\* returns at once when the lock is free and otherwise suspends the coroutine
\* until a release; an await inside the block suspends it with the lock held;
\* leaving the block releases the lock.
Step(i) ==
    /\ i \in 1..Len(batch.tasks)
    /\ batch.tasks[i].pc \in {"pending", "waiting", "inside"}
    /\ batch.tasks[i].pc = "waiting" => batch.lock = 0
    /\ LET task == batch.tasks[i]
           c == section_table(cache, task)
       IN  IF task.pc # "inside" /\ batch.lock # 0
             THEN /\ batch' = [batch EXCEPT !.tasks[i].pc = "waiting"]
                  /\ cache' = cache
             ELSE IF task.pc # "inside" /\ suspends_inside(task.op)
                    THEN /\ batch' = [batch EXCEPT !.tasks[i].pc = "inside", !.lock = i]
                         /\ cache' = cache
                    ELSE /\ cache' = body_cache(c, task, now)
                         /\ batch' = [batch EXCEPT !.tasks[i].pc = "done",
                                                   !.tasks[i].ret = body_value(c, task, now),
                                                   !.tasks[i].at = now,
                                                   !.order = Append(@, i),
                                                   !.lock = 0]
    /\ UNCHANGED <<now, ret, written, calls, started, snapshot>>

(***************************************************************************)
(* SWAPIService: keys, endpoints, failures                                 *)
(***************************************************************************)
\* retries of _make_request and the pause before one
max_retries == 3
RETRY_DELAY == 1

\* str(int): the decimal digits, with a sign for a negative number
Digit == <<"0", "1", "2", "3", "4", "5", "6", "7", "8", "9">>

RECURSIVE digits(_)
digits(n) == IF n < 10 THEN <<Digit[n + 1]>>
                       ELSE digits(n \div 10) \o <<Digit[(n % 10) + 1]>>

str(i) == IF i < 0 THEN <<"-">> \o digits(0 - i) ELSE digits(i)

\* a faulty variant, for comparison: its key for a children query leaves the kind out
cache_key_kindless(kind, film_id) ==
    IF kind = "films" THEN <<"films_all">>
    ELSE <<"film_">> \o str(film_id) \o <<"_children">>

\* the cache key of each operation, an f-string
cache_key(kind, film_id) ==
    IF kind = "films" THEN <<"films_all">>
    ELSE IF kind = "characters" THEN <<"film_">> \o str(film_id) \o <<"_characters">>
    ELSE <<"film_">> \o str(film_id) \o <<"_starships">>

\* the endpoint of the first request of each operation
first_endpoint(kind, film_id) ==
    IF kind = "films" THEN <<"films/">>
    ELSE <<"films/">> \o str(film_id) \o <<"/">>

\* fetch_resource: url.replace(BASE_URL + "/", "")
API_PREFIX == "https://swapi.dev/api/"
url_endpoint(url) == SelectSeq(url, LAMBDA part : part # API_PREFIX)

\* exceptions: the class and the message
NotFoundError(endpoint) ==
    [type |-> "ValueError", msg |-> <<"Resource not found: ">> \o endpoint]
FilmNotFound(film_id) ==
    [type |-> "ValueError", msg |-> <<"Film with ID ">> \o str(film_id) \o <<" not found">>]
HTTPStatusError(status) ==
    [type |-> "HTTPStatusError", msg |-> str(status)]
ConnectError == [type |-> "ConnectError", msg |-> <<>>]
ReadTimeout == [type |-> "ReadTimeout", msg |-> <<>>]
JSONDecodeError == [type |-> "JSONDecodeError", msg |-> <<>>]
NoError == [type |-> "none", msg |-> <<>>]

\* isinstance(e, ValueError): json.JSONDecodeError is a subclass of ValueError
IsValueError(e) == e.type \in {"ValueError", "JSONDecodeError"}

(***************************************************************************)
(* What upstream may answer to one attempt                                 *)
(***************************************************************************)
\* the url of the n-th person, as a film lists it
Url(n) == <<API_PREFIX, "people/">> \o str(n) \o <<"/">>

\* the reference lists of a film: its first n people, n up to MaxRefs
MaxRefs == 2
RefLists == {[i \in 1..n |-> Url(i)] : n \in 0..MaxRefs}
ShortRefLists == {[i \in 1..n |-> Url(i)] : n \in 0..1}

RECURSIVE SeqsUpTo(_, _)
SeqsUpTo(S, n) ==
    IF n = 0 THEN {<<>>}
    ELSE LET shorter == SeqsUpTo(S, n - 1) IN
         shorter \cup {Append(q, x) : q \in {r \in shorter : Len(r) = n - 1}, x \in S}

\* an element of GET films/ "results"
FilmDocs == {[episode_id |-> e, characters |-> cs] : e \in 1..2, cs \in ShortRefLists}
\* GET films/: up to MaxFilms films in any order
MaxFilms == 2
FilmListDocs == {[results |-> fs] : fs \in SeqsUpTo(FilmDocs, MaxFilms)}
\* GET films/{id}/: a film with characters, or one with starships
FilmDetails(lists) ==
    {[characters |-> l, starships |-> <<>>] : l \in lists}
        \cup {[characters |-> <<>>, starships |-> l] : l \in lists}
FilmDetailDocs == FilmDetails(RefLists)
\* GET people/{n}/ and GET starships/{n}/: two of equal name, one of another
ChildDocs ==
    {[name |-> 1, films |-> <<>>], [name |-> 1, films |-> <<Url(1)>>],
     [name |-> 2, films |-> <<>>]}

\* an answer to one attempt: a response with its status and its decoded body
\* (None when it cannot be decoded), or no response: a connection error or a
\* timeout, which client.get raises
NoAnswer == [t |-> "none", status |-> 0, json |-> None]
Failures ==
    {[t |-> "response", status |-> 404, json |-> None],
     [t |-> "response", status |-> 500, json |-> None],
     [t |-> "response", status |-> 200, json |-> None],
     [t |-> "connect_error", status |-> 0, json |-> None],
     [t |-> "timeout", status |-> 0, json |-> None]}
Answers(docs) == Failures \cup {[t |-> "response", status |-> 200, json |-> Some(d)] : d \in docs}

(***************************************************************************)
(* SWAPIService._make_request: one coroutine per endpoint                  *)
(***************************************************************************)
\* a request: the loop variable, where the coroutine stands (awaiting the
\* response "io", in asyncio.sleep "sleep", "returned", "raised"), when it fell
\* asleep, the answer that ended it, and what it returned or raised
NoRequest ==
    [endpoint |-> <<>>, attempt |-> 0, st |-> "none", since |-> 0,
     last |-> NoAnswer, val |-> None, exc |-> NoError]

new_request(endpoint) == [NoRequest EXCEPT !.endpoint = endpoint, !.st = "io"]

\* the exception an attempt ends with, for an answer that is not a document
answer_error(a) ==
    IF a.t = "connect_error" THEN ConnectError
    ELSE IF a.t = "timeout" THEN ReadTimeout
    ELSE IF a.status = 200 THEN JSONDecodeError
    ELSE HTTPStatusError(a.status)

\* a faulty variant, for comparison: it tests the loop variable against max_retries, one too far
on_status_error_late(r, a) ==
    IF r.attempt = max_retries
      THEN [r EXCEPT !.st = "raised", !.last = a, !.exc = answer_error(a)]
      ELSE [r EXCEPT !.attempt = @ + 1]

\* except httpx.HTTPStatusError, for a status other than 404: the last
\* iteration raises, another one goes on to the next iteration at once
on_status_error(r, a) ==
    IF r.attempt = max_retries - 1
      THEN [r EXCEPT !.st = "raised", !.last = a, !.exc = answer_error(a)]
      ELSE [r EXCEPT !.attempt = @ + 1]

\* except Exception: the last iteration raises, another one sleeps
on_exception(r, a, t) ==
    IF r.attempt = max_retries - 1
      THEN [r EXCEPT !.st = "raised", !.last = a, !.exc = answer_error(a)]
      ELSE [r EXCEPT !.st = "sleep", !.since = t]

\* a faulty variant, for comparison: it has no 404 branch: the answer is handled as any other status
on_not_found_retried(r, a) ==
    IF r.attempt = max_retries - 1
      THEN [r EXCEPT !.st = "raised", !.last = a, !.exc = answer_error(a)]
      ELSE [r EXCEPT !.attempt = @ + 1, !.last = a]

\* the 404 branch
on_not_found(r, a) ==
    [r EXCEPT !.st = "raised", !.last = a, !.exc = NotFoundError(r.endpoint)]

\* one iteration of the loop, from the answer to the next suspension point
after_answer(r, a, t) ==
    IF a.t = "response" /\ a.status = 200 /\ a.json # None
      THEN [r EXCEPT !.st = "returned", !.last = a, !.val = a.json]
    ELSE IF a.t = "response" /\ a.status = 404 THEN on_not_found(r, a)
    ELSE IF a.t = "response" /\ a.status # 200 THEN on_status_error(r, a)
    ELSE on_exception(r, a, t)

\* a faulty variant, for comparison: the retry after a sleep is not counted
after_sleep_same(r) == [r EXCEPT !.st = "io", !.since = 0]

\* asyncio.sleep(1) is over: the next iteration sends the request
after_sleep(r) == [r EXCEPT !.attempt = @ + 1, !.st = "io", !.since = 0]

\* asyncio.sleep(1) returns no sooner than RETRY_DELAY after it was called
may_wake(r, t) == r.st = "sleep" /\ t >= r.since + RETRY_DELAY

\* requests sent by going from r to q
sent(r, q) == IF q.st = "io" /\ q.attempt # r.attempt THEN 1 ELSE 0

(***************************************************************************)
(* SWAPIService: building the result                                       *)
(***************************************************************************)
\* the summary of a film: the fields copied and a count derived
enhance_film(film) ==
    [episode_id |-> film.episode_id, character_count |-> Len(film.characters)]

\* the summary of a character or a starship
enhance_child(doc) ==
    [name |-> doc.name, film_count |-> Len(doc.films)]

\* a faulty variant, for comparison: it appends, whatever the key
insert_unsorted(sorted, x, field) == Append(sorted, x)

\* list.sort(key=...): stable, an element goes after the elements whose key
\* is less than or equal to its own
RECURSIVE insert_by(_, _, _)
insert_by(sorted, x, field) ==
    IF sorted = <<>> THEN <<x>>
    ELSE IF sorted[Len(sorted)][field] <= x[field] THEN Append(sorted, x)
    ELSE Append(insert_by(SubSeq(sorted, 1, Len(sorted) - 1), x, field), sorted[Len(sorted)])

RECURSIVE sort_by(_, _)
sort_by(list, field) ==
    IF list = <<>> THEN <<>>
    ELSE insert_by(sort_by(SubSeq(list, 1, Len(list) - 1), field), list[Len(list)], field)

\* the loop that builds enhanced_films / enhanced_characters / enhanced_starships
enhanced_films(films) == [i \in 1..Len(films) |-> enhance_film(films[i])]
enhanced_children(docs) == [i \in 1..Len(docs) |-> enhance_child(docs[i])]

\* if cached_result: None and the empty list are both falsy
truthy(cached_result) == cached_result # None /\ cached_result[1] # <<>>

(***************************************************************************)
(* SWAPIService: get_films, get_film_characters, get_film_starships        *)
(***************************************************************************)
Callers == {"c1", "c2"}
Kinds == {"films", "characters", "starships"}
FilmIds == {-1, 0, 1}
MaxCalls == 2

\* a caller's coroutine: the operation and its argument, the first request, the
\* tasks of the fan-out, how it ended (status, value or exc; caught is the
\* exception that reached its except clauses), and what a test observes of it:
\* the requests it sent (nreq), until when a cached copy of its result would
\* be served (fresh_until), when it repeats the caller's previous successful
\* call before that instant, that call's value, and the tasks of the fan-out
\* in the order in which they ended (ended)
Idle ==
    [pc |-> "idle", kind |-> "films", film_id |-> 0, req |-> NoRequest, tasks |-> <<>>,
     status |-> "none", value |-> <<>>, exc |-> NoError, caught |-> NoError,
     nreq |-> 0, fresh_until |-> 0, repeats |-> None, ended |-> <<>>]

returns(call, value, until) ==
    [call EXCEPT !.pc = "done", !.status = "returned", !.value = value,
                 !.fresh_until = until]

raises(call, caught, exc) ==
    [call EXCEPT !.pc = "done", !.status = "raised", !.caught = caught, !.exc = exc]

\* a faulty variant, for comparison: it re-raises what it caught
children_except_raw(call, e) == raises(call, e, e)

\* the except clauses of get_film_characters / get_film_starships
children_except(call, e) ==
    IF IsValueError(e) THEN raises(call, e, FilmNotFound(call.film_id))
    ELSE raises(call, e, e)

\* the except clause of get_films
films_except(call, e) == raises(call, e, e)

\* the tasks asyncio.gather starts, one per url, each at its first request
fetch_multiple_resources(urls) ==
    [i \in 1..Len(urls) |-> new_request(url_endpoint(urls[i]))]

\* a faulty variant, for comparison: it reads the other list
reference_list_other(call, film_data) ==
    IF call.kind = "characters" THEN film_data.starships ELSE film_data.characters

\* the reference list a children query reads from the film
reference_list(call, film_data) ==
    IF call.kind = "characters" THEN film_data.characters ELSE film_data.starships

\* every task of the caller's last fan-out has returned or raised
settled(call) == \A i \in 1..Len(call.tasks) : call.tasks[i].st \in {"returned", "raised"}

\* the call repeats the caller's previous successful call while a cached copy
\* of that result is due to be served
repeated(old, kind, film_id, t) ==
    IF /\ old.pc = "done" /\ old.status = "returned"
       /\ old.kind = kind /\ old.film_id = film_id /\ t < old.fresh_until
      THEN Some(old.value) ELSE None

\* the coroutine up to its first suspension point: the cache lookup, and on a
\* miss the first request
begin(old, c, kind, film_id, t) ==
    LET cached_result == get_value(c, cache_key(kind, film_id), t)
        call == [Idle EXCEPT !.kind = kind, !.film_id = film_id,
                             !.repeats = repeated(old, kind, film_id, t)]
    IN  IF truthy(cached_result)
          THEN returns(call, cached_result[1], c[cache_key(kind, film_id)].expires_at)
          ELSE [call EXCEPT !.pc = "request", !.nreq = 1,
                            !.req = new_request(first_endpoint(kind, film_id))]

\* get_films after _make_request returned data: the result
films_result(data) == sort_by(enhanced_films(data.results), "episode_id")

\* a children query after asyncio.gather returned the documents: the result
children_result(docs) == sort_by(enhanced_children(docs), "name")

\* the coroutine from the end of its first request to its next suspension point
after_first(call, t) ==
    IF call.req.st = "raised"
      THEN IF call.kind = "films" THEN films_except(call, call.req.exc)
                                  ELSE children_except(call, call.req.exc)
    ELSE IF call.req.st # "returned" THEN call
    ELSE IF call.kind = "films"
      THEN returns(call, films_result(call.req.val[1]), t + DEFAULT_TTL)
    ELSE LET urls == reference_list(call, call.req.val[1]) IN
         IF urls = <<>> THEN returns(call, <<>>, t + DEFAULT_TTL)
         ELSE [call EXCEPT !.pc = "gather", !.tasks = fetch_multiple_resources(urls),
                           !.nreq = @ + Len(urls)]

\* a faulty variant, for comparison: it stores the result of get_films only
stores_films_only(before, call) ==
    /\ before.pc \in {"request", "gather"} /\ call.pc = "done" /\ call.status = "returned"
    /\ call.kind = "films"

\* whether the coroutine stores its result on reaching `call`
stores(before, call) ==
    /\ before.pc \in {"request", "gather"} /\ call.pc = "done" /\ call.status = "returned"
    /\ call.kind = "films" \/ call.tasks # <<>>

\* the cache after the step that takes the coroutine to `call`
cache_after(c, before, call, t) ==
    IF stores(before, call)
      THEN set_cache(c, cache_key(call.kind, call.film_id), call.value, None, t)
      ELSE c

\* a faulty variant, for comparison: it gathers with return_exceptions and keeps the documents
after_task_partial(call, i, t) ==
    IF call.pc # "gather" THEN call
    ELSE IF \A j \in 1..Len(call.tasks) : call.tasks[j].st \in {"returned", "raised"}
      THEN LET ok == SelectSeq(call.tasks, LAMBDA r : r.st = "returned") IN
           returns(call, children_result([j \in 1..Len(ok) |-> ok[j].val[1]]),
                   t + DEFAULT_TTL)
    ELSE call

\* a faulty variant, for comparison: it takes the documents in the order in which the tasks ended
after_task_as_completed(call, i, t) ==
    IF call.pc # "gather" THEN call
    ELSE IF call.tasks[i].st = "raised" THEN children_except(call, call.tasks[i].exc)
    ELSE IF \A j \in 1..Len(call.tasks) : call.tasks[j].st = "returned"
      THEN returns(call,
                   children_result([j \in 1..Len(call.ended) |->
                                       call.tasks[call.ended[j]].val[1]]),
                   t + DEFAULT_TTL)
    ELSE call

\* asyncio.gather as task i ends: the first exception is raised in the
\* coroutine; once every task has returned, the list of documents is
after_task(call, i, t) ==
    IF call.pc # "gather" THEN call
    ELSE IF call.tasks[i].st = "raised" THEN children_except(call, call.tasks[i].exc)
    ELSE IF \A j \in 1..Len(call.tasks) : call.tasks[j].st = "returned"
      THEN returns(call,
                   children_result([j \in 1..Len(call.tasks) |-> call.tasks[j].val[1]]),
                   t + DEFAULT_TTL)
    ELSE call

\* the documents upstream may serve to the first request of an operation
first_docs(kind) == IF kind = "films" THEN FilmListDocs ELSE FilmDetailDocs
\* the same, with films of at most one reference
short_docs(kind) == IF kind = "films" THEN FilmListDocs ELSE FilmDetails(ShortRefLists)

\* a caller starts get_films(), get_film_characters(id) or get_film_starships(id)
Call(p, kind, film_id) ==
    /\ calls[p].pc \in {"idle", "done"}
    /\ settled(calls[p])
    /\ started < MaxCalls
    /\ kind = "films" => film_id = 0
    /\ cache' = get_cache(cache, cache_key(kind, film_id), now)
    /\ calls' = [calls EXCEPT ![p] = begin(calls[p], cache, kind, film_id, now)]
    /\ started' = started + 1
    /\ snapshot' = [snapshot EXCEPT ![p] = cache]
    /\ UNCHANGED <<now, ret, written, batch>>

\* upstream answers the first request of a caller
Respond(p, a) ==
    /\ calls[p].pc = "request"
    /\ calls[p].req.st = "io"
    /\ LET r == after_answer(calls[p].req, a, now)
           call == after_first([calls[p] EXCEPT !.req = r,
                                                !.nreq = @ + sent(calls[p].req, r)], now)
       IN  /\ calls' = [calls EXCEPT ![p] = call]
           /\ cache' = cache_after(cache, calls[p], call, now)
    /\ UNCHANGED <<now, ret, written, started, snapshot, batch>>

\* the sleep before a retry of the first request ends
Wake(p) ==
    /\ calls[p].pc = "request"
    /\ may_wake(calls[p].req, now)
    /\ calls' = [calls EXCEPT ![p].req = after_sleep(@), ![p].nreq = @ + 1]
    /\ UNCHANGED <<cache, now, ret, written, started, snapshot, batch>>

\* upstream answers task i of a caller's fan-out
ChildRespond(p, i, a) ==
    /\ i \in 1..Len(calls[p].tasks)
    /\ calls[p].tasks[i].st = "io"
    /\ LET r == after_answer(calls[p].tasks[i], a, now)
           call == after_task([calls[p] EXCEPT !.tasks[i] = r,
                                               !.nreq = @ + sent(calls[p].tasks[i], r),
                                               !.ended = IF r.st \in {"returned", "raised"}
                                                           THEN Append(@, i) ELSE @],
                              i, now)
       IN  /\ calls' = [calls EXCEPT ![p] = call]
           /\ cache' = cache_after(cache, calls[p], call, now)
    /\ UNCHANGED <<now, ret, written, started, snapshot, batch>>

\* the sleep before a retry of task i ends
ChildWake(p, i) ==
    /\ i \in 1..Len(calls[p].tasks)
    /\ may_wake(calls[p].tasks[i], now)
    /\ calls' = [calls EXCEPT ![p].tasks[i] = after_sleep(@), ![p].nreq = @ + 1]
    /\ UNCHANGED <<cache, now, ret, written, started, snapshot, batch>>

\* a request in asyncio.sleep(1) whose delay is not over
asleep(r, t) == r.st = "sleep" /\ ~may_wake(r, t)

\* time passes while a coroutine is in asyncio.sleep(1)
Elapse ==
    /\ \E p \in Callers :
         \/ asleep(calls[p].req, now)
         \/ \E i \in 1..Len(calls[p].tasks) : asleep(calls[p].tasks[i], now)
    /\ now' = now + 1
    /\ UNCHANGED <<cache, ret, written, calls, started, snapshot, batch>>

(***************************************************************************)
(* Specifications                                                          *)
(***************************************************************************)
Init ==
    /\ cache = [k \in {} |-> k]
    /\ now = 0
    /\ ret = NoCall
    /\ written = [k \in {} |-> k]
    /\ calls = [p \in Callers |-> Idle]
    /\ started = 0
    /\ snapshot = [p \in Callers |-> [k \in {} |-> k]]
    /\ batch = NoBatch

\* the CacheService under the calls of the endpoint layer
NextCache ==
    \/ \E key \in TestKeys : CacheGet(key)
    \/ \E key \in TestKeys, value \in TestValues, ttl \in TestTTLs : CacheSet(key, value, ttl)
    \/ \E key \in TestKeys : CacheDelete(key)
    \/ CacheClear
    \/ CacheStats
    \/ CacheHealth
    \/ \E t \in Times : Tick(t)

SpecCache == Init /\ [][NextCache]_vars

\* CacheService calls on one key made at any time and run in any order
NextConc ==
    \/ \E o \in ConcOps : Submit(o)
    \/ \E i \in 1..MaxTasks : Run(i)
    \/ \E t \in 0..MaxTick : Tick(t)

SpecConc == Init /\ [][NextConc]_vars

\* the six operations of CacheService, up to MaxTasks at once, in any schedule
NextLock ==
    \/ \E o \in LockOps : Submit(o)
    \/ \E i \in 1..MaxTasks : Step(i)

SpecLock == Init /\ [][NextLock]_vars

\* one SWAPIService operation on a cold cache, under every upstream behaviour
Next ==
    \/ started = 0 /\ \E kind \in Kinds, film_id \in FilmIds : Call("c1", kind, film_id)
    \/ \E a \in Answers(first_docs(calls["c1"].kind)) : Respond("c1", a)
    \/ Wake("c1")
    \/ \E i \in 1..MaxRefs, a \in Answers(ChildDocs) : ChildRespond("c1", i, a)
    \/ \E i \in 1..MaxRefs : ChildWake("c1", i)
    \/ \E t \in 0..MaxTick : Tick(t)

Spec == Init /\ [][Next]_vars

\* the answers of upstream, with one document of each kind of request: an
\* empty list of films, a film with characters, a character
LiveFilmAnswers == Answers({d \in FilmListDocs : Len(d.results) = 0})
LiveDetailAnswers == Answers({d \in FilmDetailDocs : d.starships = <<>>})
LiveChildAnswers == Answers({d \in ChildDocs : d.name = 1 /\ d.films = <<>>})
LiveAnswers(kind) == IF kind = "films" THEN LiveFilmAnswers ELSE LiveDetailAnswers

\* one SWAPIService operation on a cold cache, where every attempt is answered
\* (httpx returns, raises or times out after 30 s) and every asyncio.sleep(1)
\* ends: the event loop resumes a coroutine whose awaited result is there
NextLive ==
    \/ started = 0 /\ \E kind \in {"films", "characters"} :
                        Call("c1", kind, IF kind = "films" THEN 0 ELSE 1)
    \/ \E a \in LiveAnswers(calls["c1"].kind) : Respond("c1", a)
    \/ Wake("c1")
    \/ \E i \in 1..MaxRefs, a \in LiveChildAnswers : ChildRespond("c1", i, a)
    \/ \E i \in 1..MaxRefs : ChildWake("c1", i)
    \/ Elapse

Fairness ==
    /\ WF_vars(\E a \in LiveAnswers(calls["c1"].kind) : Respond("c1", a))
    /\ WF_vars(Wake("c1"))
    /\ \A i \in 1..MaxRefs :
         WF_vars(\E a \in LiveChildAnswers : ChildRespond("c1", i, a))
    /\ \A i \in 1..MaxRefs : WF_vars(ChildWake("c1", i))
    /\ WF_vars(Elapse)

SpecLive == Init /\ [][NextLive]_vars /\ Fairness

\* consecutive SWAPIService operations of one caller, over films of at most
\* one reference, with the clock running over the TTL
NextRepeat ==
    \/ \E kind \in Kinds, film_id \in FilmIds : Call("c1", kind, film_id)
    \/ \E a \in Answers(short_docs(calls["c1"].kind)) : Respond("c1", a)
    \/ Wake("c1")
    \/ \E a \in Answers(ChildDocs) : ChildRespond("c1", 1, a)
    \/ ChildWake("c1", 1)
    \/ \E t \in Times : Tick(t)

SpecRepeat == Init /\ [][NextRepeat]_vars

\* the queries: get_films(), and a children query for each film_id of up to
\* two digits, of either sign
MaxKeyId == 11
KeyIds == (0 - MaxKeyId)..MaxKeyId
Queries ==
    {[kind |-> "films", film_id |-> 0]}
        \cup {[kind |-> kind, film_id |-> id] : kind \in Kinds \ {"films"}, id \in KeyIds}

\* two queries, one after the other, each by its own caller, with upstream
\* answering every request with a document
NextKeys ==
    \/ \E q \in Queries : calls["c1"].pc = "idle" /\ Call("c1", q.kind, q.film_id)
    \/ \E q \in Queries :
         calls["c1"].pc = "done" /\ calls["c2"].pc = "idle" /\ Call("c2", q.kind, q.film_id)
    \/ \E p \in Callers :
         \E a \in Answers(short_docs(calls[p].kind)) \ Failures : Respond(p, a)
    \/ \E p \in Callers : \E a \in Answers(ChildDocs) \ Failures : ChildRespond(p, 1, a)

SpecKeys == Init /\ [][NextKeys]_vars

\* two callers, one operation each, started at any time: get_films() or a
\* children query for film 1
NextOverlap ==
    \/ \E p \in Callers, kind \in Kinds :
         calls[p].pc = "idle" /\ Call(p, kind, IF kind = "films" THEN 0 ELSE 1)
    \/ \E p \in Callers : \E a \in Answers(short_docs(calls[p].kind)) : Respond(p, a)
    \/ \E p \in Callers : Wake(p)
    \/ \E p \in Callers : \E a \in Answers(ChildDocs) : ChildRespond(p, 1, a)
    \/ \E p \in Callers : ChildWake(p, 1)
    \/ \E t \in 0..MaxTick : Tick(t)

SpecOverlap == Init /\ [][NextOverlap]_vars

(***************************************************************************)
(* Properties                                                              *)
(***************************************************************************)
\* every request coroutine of a caller: the first request and the tasks
Requests(p) == {calls[p].req} \cup {calls[p].tasks[i] : i \in 1..Len(calls[p].tasks)}

\* the value and the instant of expiry of the last set() on the key get() read
Stored == written[ret.key]
ExpiresAt == written[ret.key].at + written[ret.key].ttl

\* C1 (as amended): after set(key, v, ttl) at time t, with no later set, delete
\* or clear of the key, get(key) returns v at every time now <= t + ttl, the
\* boundary instant included, and returns absent and leaves no entry for the
\* key at every time now > t + ttl.
C1_TtlCorrectness ==
    (ret.op = "get" /\ ret.key \in DOMAIN written) =>
        IF ret.at <= ExpiresAt
          THEN ret.value = Some(Stored.value)
          ELSE ret.value = None /\ ret.key \notin DOMAIN cache

\* C1 as stated: get(key) returns v while now < t + ttl, and returns absent and
\* removes the entry once now >= t + ttl.
C1_TtlCorrectnessAsStated ==
    (ret.op = "get" /\ ret.key \in DOMAIN written) =>
        IF ret.at < ExpiresAt
          THEN ret.value = Some(Stored.value)
          ELSE ret.value = None /\ ret.key \notin DOMAIN cache

\* a get() at the boundary instant now = t + ttl that returned the value
C1_Witness ==
    /\ ret.op = "get" /\ ret.key \in DOMAIN written
    /\ ret.at = ExpiresAt
    /\ ret.value = Some(Stored.value)
    /\ Stored.value # <<>>

\* C2: a successful call that repeats the caller's previous successful call,
\* with the same parameters and inside the TTL window, returns the same result
\* and sends no upstream request, whatever the result, an empty one included.
C2_ReadThroughIdempotence ==
    \A p \in Callers :
        (calls[p].pc = "done" /\ calls[p].status = "returned" /\ calls[p].repeats # None)
            => calls[p].value = calls[p].repeats[1] /\ calls[p].nreq = 0

\* C3: a request makes at most 3 attempts; it returns the response of the
\* attempt that succeeded, the third one included; a failure other than a 404
\* is raised only by the third attempt, and it is that attempt's failure.
C3_RetryCeiling ==
    \A p \in Callers : \A r \in Requests(p) :
        /\ r.attempt + 1 <= 3
        /\ r.st = "returned" => (r.last.status = 200 /\ r.val = r.last.json /\ r.val # None)
        /\ (r.st = "raised" /\ r.last.status # 404) =>
              (r.attempt + 1 = 3 /\ r.exc = answer_error(r.last) /\ r.exc.type # "none")

\* a request that failed twice and whose third attempt returned a document
C3_Witness ==
    \E r \in Requests("c1") : r.attempt + 1 = 3 /\ r.st = "returned"

\* C4: a request that was answered 404, on whichever attempt, has raised the
\* not-found failure of its endpoint: it neither sleeps nor sends a request.
C4_NotFoundNotRetried ==
    \A p \in Callers : \A r \in Requests(p) :
        r.last.status = 404 =>
            (r.st = "raised" /\ r.exc = NotFoundError(r.endpoint))

\* a request answered 404 on its third attempt
C4_Witness ==
    \E r \in Requests("c1") : r.last.status = 404 /\ r.attempt + 1 = 3 /\ r.st = "raised"

\* the requests of p that exist before and after a step, as pairs
RequestSteps(p) ==
    {<<calls[p].req, calls'[p].req>>}
        \cup {<<calls[p].tasks[i], calls'[p].tasks[i]>> :
                i \in (1..Len(calls[p].tasks)) \cap (1..Len(calls'[p].tasks))}

\* C5: a request starts an attempt after the first only from asyncio.sleep,
\* RETRY_DELAY (1 s) or more after it fell asleep, whatever the failure of the
\* attempt before.
C5_DelayBeforeRetry ==
    [][\A p \in Callers : \A s \in RequestSteps(p) :
          (s[1].endpoint = s[2].endpoint /\ s[2].attempt > s[1].attempt)
              => (s[1].st = "sleep" /\ now >= s[1].since + 1)]_vars

\* C6: when a child fetch of a children query has failed, the query has
\* failed: it has returned no list.
C6_FanOutAtomicity ==
    \A p \in Callers :
        (\E i \in 1..Len(calls[p].tasks) : calls[p].tasks[i].st = "raised") =>
            /\ calls[p].pc = "done"
            /\ calls[p].status = "raised"
            /\ calls[p].value = <<>>

\* a failed query of two children: one returned its document, the other
\* failed on its third attempt
C6_Witness ==
    /\ calls["c1"].pc = "done" /\ calls["c1"].status = "raised"
    /\ Len(calls["c1"].tasks) = 2
    /\ \E i, j \in 1..2 :
         /\ calls["c1"].tasks[i].st = "returned"
         /\ calls["c1"].tasks[j].st = "raised"
         /\ calls["c1"].tasks[j].attempt + 1 = 3
         /\ calls["c1"].tasks[j].last.status # 404

\* C7: a children query for film_id that caught a not-found failure, of the
\* film or of a child, fails with "Film with ID {film_id} not found".
C7_NotFoundTranslation ==
    \A p \in Callers :
        (/\ calls[p].kind # "films" /\ calls[p].status = "raised"
         /\ \E r \in Requests(p) : r.last.status = 404 /\ calls[p].caught = r.exc)
            => /\ calls[p].exc.type = "ValueError"
               /\ calls[p].exc.msg = <<"Film with ID ">> \o str(calls[p].film_id) \o <<" not found">>
               /\ calls[p].exc.msg[1] # "Resource not found: "

\* a query for film -1 that failed because a child answered 404
C7_Witness ==
    /\ calls["c1"].kind = "starships" /\ calls["c1"].film_id = -1
    /\ calls["c1"].status = "raised"
    /\ \E i \in 1..Len(calls["c1"].tasks) :
         /\ calls["c1"].tasks[i].last.status = 404
         /\ calls["c1"].caught = calls["c1"].tasks[i].exc

\* C8: a failed children query none of whose fetches was answered 404 has
\* not failed with the film-not-found failure.
C8_TransientStaysGeneric ==
    \A p \in Callers :
        (/\ calls[p].kind # "films" /\ calls[p].status = "raised"
         /\ \A r \in Requests(p) : r.last.status # 404)
            => calls[p].exc # FilmNotFound(calls[p].film_id)

\* list is sorted ascending by field
IsSortedBy(list, field) ==
    \A i, j \in 1..Len(list) : i < j => list[i][field] <= list[j][field]

\* a and b hold the same elements, each as often
IsPermutation(a, b) ==
    /\ Len(a) = Len(b)
    /\ \A x \in {a[i] : i \in 1..Len(a)} \cup {b[i] : i \in 1..Len(b)} :
         Cardinality({i \in 1..Len(a) : a[i] = x}) = Cardinality({i \in 1..Len(b) : b[i] = x})

\* the summaries of the documents a call fetched, in upstream's order
FetchedSummaries(call) ==
    IF call.kind = "films"
      THEN [i \in 1..Len(call.req.val[1].results) |->
              [episode_id |-> call.req.val[1].results[i].episode_id,
               character_count |-> Len(call.req.val[1].results[i].characters)]]
      ELSE [i \in 1..Len(call.tasks) |->
              [name |-> call.tasks[i].val[1].name,
               film_count |-> Len(call.tasks[i].val[1].films)]]

\* C9: the result of a call that fetched is sorted ascending, by episode_id
\* for get_films and by name for a children query, and is a permutation of
\* the summaries of the documents upstream returned.
C9_DeterministicOrdering ==
    \A p \in Callers :
        (calls[p].pc = "done" /\ calls[p].status = "returned" /\ calls[p].nreq > 0) =>
            /\ IsSortedBy(calls[p].value,
                          IF calls[p].kind = "films" THEN "episode_id" ELSE "name")
            /\ IsPermutation(calls[p].value, FetchedSummaries(calls[p]))

\* two children that upstream returned in descending order of name
C9_Witness ==
    /\ calls["c1"].pc = "done" /\ calls["c1"].status = "returned"
    /\ Len(calls["c1"].tasks) = 2
    /\ calls["c1"].tasks[1].val[1].name > calls["c1"].tasks[2].val[1].name

\* the list of the requested kind in the film a children query fetched
RequestedList(call) ==
    IF call.kind = "characters" THEN call.req.val[1].characters
                                ELSE call.req.val[1].starships

\* C10: a children query whose film was fetched and lists nothing of the
\* requested kind has returned the empty sequence, has started no child fetch,
\* and has sent only the attempts of the film fetch.
C10_EmptyChildren ==
    \A p \in Callers :
        (/\ calls[p].kind # "films" /\ calls[p].req.st = "returned"
         /\ RequestedList(calls[p]) = <<>>)
            => /\ calls[p].pc = "done"
               /\ calls[p].status = "returned"
               /\ calls[p].value = <<>>
               /\ calls[p].tasks = <<>>
               /\ calls[p].nreq = calls[p].req.attempt + 1

\* a characters query on a film that has starships and no characters
C10_Witness ==
    /\ calls["c1"].kind = "characters" /\ calls["c1"].req.st = "returned"
    /\ calls["c1"].req.val[1].characters = <<>>
    /\ calls["c1"].req.val[1].starships # <<>>
    /\ calls["c1"].pc = "done"

\* every enumeration of the set S, each element once
RECURSIVE Perms(_)
Perms(S) ==
    IF S = {} THEN {<<>>}
    ELSE UNION {{<<x>> \o q : q \in Perms(S \ {x})} : x \in S}

\* the concurrent calls that have returned
Returned == {i \in 1..Len(batch.tasks) : batch.tasks[i].pc = "done"}

\* the calls q, made one after another from table c, each at the instant it
\* read the clock, return what they returned and leave the table as it is
RECURSIVE SerialAgrees(_, _)
SerialAgrees(c, q) ==
    IF q = <<>> THEN c = cache
    ELSE LET task == batch.tasks[q[1]] IN
         /\ body_value(c, task, task.at) = task.ret
         /\ SerialAgrees(body_cache(c, task, task.at), Tail(q))

\* the entry is the one a set() of the batch wrote, whole, but for the
\* accounting of later hits
WrittenWhole(entry) ==
    \E i \in Returned :
        /\ batch.tasks[i].op = "set"
        /\ [entry EXCEPT !.access_count = 0, !.last_accessed = None]
             = new_entry(batch.tasks[i].value,
                         IF batch.tasks[i].ttl = None THEN 300 ELSE batch.tasks[i].ttl[1],
                         batch.tasks[i].at)

\* C11: for get/set/delete calls on one key in progress at once, in whatever
\* order the event loop runs them, the table and the value each call returned
\* are those of the calls made one after another in some order; the entry in
\* the table is one a set() wrote, whole, and a get() returns nothing but the
\* value of a set().
C11_ConcurrentAccessSafety ==
    /\ \E q \in Perms(Returned) : SerialAgrees([k \in {} |-> k], q)
    /\ ConcKey \in DOMAIN cache => WrittenWhole(cache[ConcKey])
    /\ \A i \in Returned :
         (batch.tasks[i].op = "get" /\ batch.tasks[i].ret # None) =>
             \E j \in Returned : /\ batch.tasks[j].op = "set"
                                 /\ batch.tasks[i].ret = Some(batch.tasks[j].value)

\* three calls in progress at once: the set() made second ran first, the
\* get() made first returned its value, and a delete() removed the entry
C11_Witness ==
    /\ Len(batch.order) = 3 /\ batch.order[1] = 2
    /\ batch.tasks[2].op = "set" /\ batch.tasks[2].value # <<>>
    /\ batch.tasks[1].op = "get" /\ batch.tasks[1].ret = Some(batch.tasks[2].value)
    /\ batch.tasks[3].op = "delete" /\ batch.tasks[3].ret = Some(TRUE)

\* C12: a children query whose film_id is zero or negative has failed without
\* looking into the cache and without sending a request: the table is as the
\* call found it.
C12_ValidationFirst ==
    \A p \in Callers :
        (calls[p].pc # "idle" /\ calls[p].kind # "films" /\ calls[p].film_id <= 0) =>
            /\ calls[p].pc = "done" /\ calls[p].status = "raised"
            /\ calls[p].nreq = 0 /\ calls[p].req = NoRequest
            /\ cache = snapshot[p]

\* the entries of table c that are not past their expiry at time t
NotPast(c, t) == {k \in DOMAIN c : ~(c[k].expires_at < t)}

\* C13: a get() that returns a value returns the data of an entry whose
\* expires_at is not less than the current time; get_stats() reports, and
\* counts, exactly the entries whose expires_at is not less than the current
\* time, and health_check() counts exactly those; whatever set(), delete() and
\* the clock left in the table.
C13_LogicalAbsence ==
    [][/\ \A key \in TestKeys :
            (CacheGet(key) /\ ret'.value # None) =>
                /\ key \in NotPast(cache, now)
                /\ ret'.value = Some(cache[key].data)
       /\ CacheStats =>
            /\ DOMAIN ret'.value[1].entries = NotPast(cache, now)
            /\ ret'.value[1].total_entries = Cardinality(NotPast(cache, now))
       /\ CacheHealth =>
            ret'.value[1].active_entries = Cardinality(NotPast(cache, now))]_vars

\* get_stats() counted one entry; the other key was set and not deleted since,
\* and was past its expiry when the counted key was set
C13_Witness ==
    /\ ret.op = "get_stats" /\ ret.value[1].total_entries = 1
    /\ \E k \in DOMAIN written \ DOMAIN cache, k2 \in DOMAIN cache :
         /\ written[k].at + written[k].ttl < written[k2].at
         /\ written[k2].at <= ret.at

\* C15: set(key, v, ttl) leaves for key the entry with value v, access_count 0,
\* last_accessed None, created_at the time of the call and expires_at that
\* time + ttl, the ttl being 300 when the argument is omitted, whatever entry
\* the key had; the entries of the other keys are as they were.
C15_SetOverwrites ==
    [][\A key \in TestKeys, value \in TestValues, ttl \in TestTTLs :
          CacheSet(key, value, ttl) =>
              LET eff == IF ttl = None THEN 300 ELSE ttl[1] IN
              /\ DOMAIN cache' = DOMAIN cache \cup {key}
              /\ cache'[key] = [data |-> value, created_at |-> now,
                                expires_at |-> now + eff, access_count |-> 0,
                                last_accessed |-> None, ttl |-> eff]
              /\ \A k \in DOMAIN cache \ {key} : cache'[k] = cache[k]]_vars

\* a set() without ttl, made after time 0, next to an entry of another key
\* that was hit and is past its expiry
C15_Witness ==
    /\ ret.op = "set" /\ ret.at = now /\ now > 0
    /\ ret.key \in DOMAIN cache
    /\ cache[ret.key].expires_at = now + 300 /\ cache[ret.key].access_count = 0
    /\ \E k \in DOMAIN cache \ {ret.key} :
         cache[k].access_count > 0 /\ cache[k].expires_at < now

\* C16: delete(key) returns True exactly when the table holds an entry for key
\* (swept or not), removes it, and leaves the other entries as they are; from
\* then to the next set(key), delete(key) returns False and get(key) returns
\* None.
C16_Delete ==
    [][/\ \A key \in TestKeys :
            CacheDelete(key) =>
                /\ ret'.value = Some(key \in DOMAIN cache)
                /\ DOMAIN cache' = DOMAIN cache \ {key}
                /\ \A k \in DOMAIN cache' : cache'[k] = cache[k]
                /\ key \notin DOMAIN written => ret'.value = Some(FALSE)
       /\ \A key \in TestKeys :
            (CacheGet(key) /\ key \notin DOMAIN written) => ret'.value = None]_vars

\* a delete() that returned True, next to an entry of the other key that was hit
C16_Witness ==
    /\ ret.op = "delete" /\ ret.value = Some(TRUE)
    /\ ret.key \notin DOMAIN cache
    /\ \E k \in DOMAIN cache : cache[k].access_count > 0

\* C17: get_stats() and health_check() add no entry and change none; every
\* entry that is not expired at the call is in the table afterwards, with the
\* same data, created_at, expires_at, ttl, access_count and last_accessed.
C17_IntrospectionReadOnly ==
    [][(CacheStats \/ CacheHealth) =>
          /\ \A k \in DOMAIN cache' : k \in DOMAIN cache /\ cache'[k] = cache[k]
          /\ \A k \in DOMAIN cache :
               ~(now > cache[k].expires_at) => k \in DOMAIN cache']_vars

\* health_check() at an instant when one key, set and not deleted, was past
\* its expiry and the entry of the other, hit before, was not
C17_Witness ==
    /\ ret.op = "health_check" /\ ret.at = now
    /\ \E k \in DOMAIN written \ DOMAIN cache : written[k].at + written[k].ttl < now
    /\ \E k \in DOMAIN cache : cache[k].access_count > 0 /\ cache[k].expires_at >= now

\* the call was served from the cache
ServedFromCache(call) == call.pc = "done" /\ call.status = "returned" /\ call.nreq = 0

\* C14: the key of a query that was made is "films_all",
\* "film_{id}_characters" or "film_{id}_starships", and it is the key of no
\* other query, among get_films() and the children queries of either kind for
\* every film_id: two distinct queries have distinct keys; a query
\* served from the cache returns the result of an earlier query of the same
\* kind for the same film_id.
C14_KeyInjective ==
    /\ \A p \in Callers :
         calls[p].pc # "idle" =>
             LET key == cache_key(calls[p].kind, calls[p].film_id) IN
             /\ key = IF calls[p].kind = "films" THEN <<"films_all">>
                      ELSE <<"film_">> \o str(calls[p].film_id)
                             \o (IF calls[p].kind = "characters" THEN <<"_characters">>
                                                                 ELSE <<"_starships">>)
             /\ \A q \in Queries :
                  cache_key(q.kind, q.film_id) = key =>
                      (q.kind = calls[p].kind /\ q.film_id = calls[p].film_id)
    /\ \A p \in Callers :
         ServedFromCache(calls[p]) =>
             \E o \in Callers \ {p} :
                 /\ calls[o].pc = "done" /\ calls[o].status = "returned" /\ calls[o].nreq > 0
                 /\ calls[o].kind = calls[p].kind /\ calls[o].film_id = calls[p].film_id
                 /\ calls[o].value = calls[p].value

\* the characters of film 11 are cached, and the query for the starships of
\* film 11 that followed went upstream
C14_Witness ==
    /\ calls["c1"].kind = "characters" /\ calls["c1"].film_id = 11
    /\ calls["c1"].status = "returned" /\ calls["c1"].value # <<>>
    /\ cache_key("characters", 11) \in DOMAIN cache
    /\ calls["c2"].kind = "starships" /\ calls["c2"].film_id = 11
    /\ calls["c2"].pc = "done" /\ calls["c2"].nreq > 0

\* the cache key of a call
KeyOf(call) == cache_key(call.kind, call.film_id)

\* C18: the step by which an operation that missed the cache returns a
\* non-empty result leaves under the operation's key an entry whose data is
\* the returned sequence, written at that instant with the TTL of 300 s
\* (expires_at = write time + 300); no step of an operation creates or changes
\* an entry under another key.
C18_ReadThroughPopulation ==
    [][\A p \in Callers :
          /\ (/\ calls[p].pc \in {"request", "gather"}
              /\ calls'[p].pc = "done" /\ calls'[p].status = "returned"
              /\ calls'[p].value # <<>>) =>
                 /\ KeyOf(calls'[p]) \in DOMAIN cache'
                 /\ cache'[KeyOf(calls'[p])] =
                        [data |-> calls'[p].value, created_at |-> now,
                         expires_at |-> now + 300, access_count |-> 0,
                         last_accessed |-> None, ttl |-> 300]
          /\ calls'[p] # calls[p] =>
                 \A k \in DOMAIN cache' \ {KeyOf(calls'[p])} :
                     k \in DOMAIN cache /\ cache'[k] = cache[k]]_vars

\* a children query that went upstream after time 0 has returned a non-empty
\* result, which the cache holds next to the entry of another key
C18_Witness ==
    /\ calls["c1"].pc = "done" /\ calls["c1"].status = "returned"
    /\ calls["c1"].kind # "films" /\ calls["c1"].nreq > 0 /\ calls["c1"].value # <<>>
    /\ KeyOf(calls["c1"]) \in DOMAIN cache
    /\ cache[KeyOf(calls["c1"])].data = calls["c1"].value
    /\ cache[KeyOf(calls["c1"])].created_at > 0
    /\ DOMAIN cache # {KeyOf(calls["c1"])}

\* table c is table s but for entries that were past their expiry by time t
IsPurged(c, s, t) ==
    /\ \A k \in DOMAIN c : k \in DOMAIN s /\ c[k] = s[k]
    /\ \A k \in DOMAIN s \ DOMAIN c : s[k].expires_at < t

\* C19: from the failure of an operation on, child fetches still in flight
\* included, the table is the table the call found, but for entries purged
\* as expired.
C19_FailuresNeverCached ==
    \A p \in Callers :
        calls[p].status = "raised" => IsPurged(cache, snapshot[p], now)

\* C20: a children query that started its child fetches has neither returned
\* nor failed while one of them has neither returned nor raised.
C20_JoinBarrier ==
    \A p \in Callers :
        (calls[p].pc = "done" /\ calls[p].tasks # <<>>) => settled(calls[p])

\* the place of the document of task i in the result: after the documents of
\* a lesser name and, among those of its name, after those of the tasks
\* before it in the film's reference list
Rank(call, i) ==
    1 + Cardinality({j \in 1..Len(call.tasks) :
                        \/ call.tasks[j].val[1].name < call.tasks[i].val[1].name
                        \/ /\ call.tasks[j].val[1].name = call.tasks[i].val[1].name
                           /\ j < i})

\* C21: the result of a successful children query is fixed by the film's
\* reference list and the documents of the children: the summaries by name,
\* those of equal name in the order of the reference list, in whatever order
\* the child fetches ended.
C21_CompletionOrderHidden ==
    \A p \in Callers :
        (/\ calls[p].pc = "done" /\ calls[p].status = "returned"
         /\ calls[p].tasks # <<>> /\ calls[p].nreq > 0) =>
            /\ Len(calls[p].value) = Len(calls[p].tasks)
            /\ \A i \in 1..Len(calls[p].tasks) :
                 calls[p].value[Rank(calls[p], i)] =
                     [name |-> calls[p].tasks[i].val[1].name,
                      film_count |-> Len(calls[p].tasks[i].val[1].films)]

\* two children of equal name and different summaries, the second of the
\* reference list fetched first: the result has the first one first
C21_Witness ==
    /\ calls["c1"].pc = "done" /\ calls["c1"].status = "returned"
    /\ Len(calls["c1"].tasks) = 2 /\ calls["c1"].ended = <<2, 1>>
    /\ calls["c1"].tasks[1].val[1].name = calls["c1"].tasks[2].val[1].name
    /\ calls["c1"].tasks[1].val[1].films # calls["c1"].tasks[2].val[1].films
    /\ calls["c1"].value[1].film_count = Len(calls["c1"].tasks[1].val[1].films)

\* the operation is between its cache miss and its end: it is retrieving
Retrieving(call) == call.pc \in {"request", "gather"} /\ call.nreq > 0

\* C22: two calls of one operation with the same parameters are never both
\* retrieving from upstream: of two calls that overlap on a cold cache, at
\* most one performs the upstream retrieval.
C22_NoRedundantRetrieval ==
    \A p, q \in Callers :
        (p # q /\ calls[p].kind = calls[q].kind /\ calls[p].film_id = calls[q].film_id)
            => ~(Retrieving(calls[p]) /\ Retrieving(calls[q]))

\* C23: a get(key) that hits leaves the entry of the key as it was but for
\* access_count, one more, and last_accessed, the current time, and leaves the
\* other entries as they were; a get that misses changes no entry; the
\* access_count of an entry is the number of hits on its key since the set()
\* that wrote it.
C23_GetAccounting ==
    [][/\ \A key \in TestKeys :
            CacheGet(key) =>
                IF ret'.value # None
                  THEN /\ key \in DOMAIN cache /\ key \in DOMAIN cache'
                       /\ cache'[key] = [cache[key] EXCEPT
                                            !.access_count = cache[key].access_count + 1,
                                            !.last_accessed = Some(now)]
                       /\ \A k \in DOMAIN cache' \ {key} : cache'[k] = cache[k]
                  ELSE \A k \in DOMAIN cache' : k \in DOMAIN cache /\ cache'[k] = cache[k]
       /\ \A k \in DOMAIN cache :
            k \in DOMAIN written /\ cache[k].access_count = written[k].hits]_vars

\* the second hit on an entry, after the instant it was written, next to an
\* entry of the other key that was never hit
C23_Witness ==
    /\ ret.op = "get" /\ ret.value # None /\ ret.key \in DOMAIN cache
    /\ cache[ret.key].access_count = 2 /\ written[ret.key].hits = 2
    /\ cache[ret.key].last_accessed = Some(ret.at)
    /\ ret.at > cache[ret.key].created_at
    /\ \E k \in DOMAIN cache \ {ret.key} : cache[k].access_count = 0

\* C24: when get(k), get_stats() or health_check() returns, no entry of the
\* table, of whatever key, has expires_at < now; set(k) and delete(k) leave
\* every entry of the other keys, expired or not, in place and as it was.
C24_WholeTableSweep ==
    [][/\ \/ \A k \in DOMAIN cache' : ~(cache'[k].expires_at < now)
          \/ ~((\E key \in TestKeys : CacheGet(key)) \/ CacheStats \/ CacheHealth)
       /\ \A key \in TestKeys :
            \/ \A k \in DOMAIN cache \ {key} : k \in DOMAIN cache' /\ cache'[k] = cache[k]
            \/ ~((\E value \in TestValues, ttl \in TestTTLs : CacheSet(key, value, ttl))
                    \/ CacheDelete(key))]_vars

\* a get() that hit its key, while the other key, set and not deleted, was
\* past its expiry: its entry is gone
C24_Witness ==
    /\ ret.op = "get" /\ ret.at = now /\ ret.value # None
    /\ \E k \in DOMAIN written \ (DOMAIN cache \cup {ret.key}) :
         written[k].at + written[k].ttl < now

\* C25: get_stats() returns total_entries equal to the number of entry records
\* it returns, each with 0 <= remaining_ttl <= the ttl of the entry;
\* health_check() returns the status "healthy" and active_entries equal to the
\* number of entries with expires_at >= now.
C25_IntrospectionCounts ==
    [][/\ CacheStats =>
            LET stats == ret'.value[1] IN
            /\ stats.total_entries = Cardinality(DOMAIN stats.entries)
            /\ \A k \in DOMAIN stats.entries :
                 /\ k \in DOMAIN cache
                 /\ 0 <= stats.entries[k].remaining_ttl
                 /\ stats.entries[k].remaining_ttl <= cache[k].ttl
       /\ CacheHealth =>
            /\ ret'.value[1].status = "healthy"
            /\ ret'.value[1].active_entries =
                   Cardinality({k \in DOMAIN cache : cache[k].expires_at >= now})]_vars

\* get_stats() reported two entries, one at its instant of expiry (nothing
\* remains) and one with time left, while a key set earlier had expired
C25_Witness ==
    /\ ret.op = "get_stats" /\ ret.value[1].total_entries = 2
    /\ \E k, k2 \in DOMAIN ret.value[1].entries :
         /\ ret.value[1].entries[k].remaining_ttl = 0
         /\ ret.value[1].entries[k2].remaining_ttl > 0

\* C28: every entry of the table has expires_at = created_at + ttl and
\* access_count >= 0; its last_accessed is None exactly when access_count is 0,
\* and is otherwise an instant at or after created_at.
C28_EntryWellFormed ==
    \A k \in DOMAIN cache :
        /\ cache[k].expires_at = cache[k].created_at + cache[k].ttl
        /\ cache[k].access_count >= 0
        /\ (cache[k].last_accessed = None) <=> (cache[k].access_count = 0)
        /\ cache[k].last_accessed # None => cache[k].last_accessed[1] >= cache[k].created_at

\* an entry written after time 0 and hit later, next to one never hit
C28_Witness ==
    \E k, k2 \in DOMAIN cache :
        /\ cache[k].created_at > 0 /\ cache[k].access_count > 0
        /\ cache[k].last_accessed[1] > cache[k].created_at
        /\ cache[k2].access_count = 0 /\ cache[k2].ttl = 300

\* C29: clear() (close() only awaits it) leaves the table empty, whatever it
\* held, an empty table included; while no set() has been made since, get()
\* returns None, get_stats() reports no entry and health_check() counts 0.
C29_ClearEmpties ==
    [][/\ CacheClear => DOMAIN cache' = {}
       /\ DOMAIN written = {} =>
            /\ \A key \in TestKeys : CacheGet(key) => ret'.value = None
            /\ CacheStats => /\ ret'.value[1].total_entries = 0
                             /\ DOMAIN ret'.value[1].entries = {}
            /\ CacheHealth => ret'.value[1].active_entries = 0]_vars

\* a clear() after time 0: the table is empty
C29_Witness ==
    /\ ret.op = "clear" /\ ret.at > 0 /\ DOMAIN cache = {} /\ DOMAIN written = {}

\* C26: no operation of CacheService is suspended while it holds the lock: in
\* every state the lock is free and no coroutine waits for it, so a coroutine
\* that is scheduled always runs its operation to the end.
C26_NoSuspensionUnderLock ==
    /\ batch.lock = 0
    /\ \A i \in 1..Len(batch.tasks) : batch.tasks[i].pc \in {"pending", "done"}

\* three operations made at once, a set(), a get() and a get_stats(), ran in
\* another order than they were made, and the get() saw the set()
C26_Witness ==
    /\ Len(batch.order) = 3 /\ batch.order[1] # 1
    /\ \E i, j, k \in 1..Len(batch.tasks) :
         /\ batch.tasks[i].op = "set" /\ batch.tasks[i].value # <<>>
         /\ batch.tasks[j].op = "get" /\ batch.tasks[j].ret = Some(batch.tasks[i].value)
         /\ batch.tasks[k].op = "get_stats" /\ batch.tasks[k].pc = "done"

\* C27: an operation that was called ends, by a return or by a raise, when
\* every attempt is answered and every sleep ends; at any moment get_films has
\* sent at most max_retries requests and a children query over N references at
\* most max_retries + max_retries * N.
C27_TerminationBoundedAttempts ==
    /\ [](\A p \in Callers :
            calls[p].nreq <= max_retries + max_retries * Len(calls[p].tasks))
    /\ \A p \in Callers :
         (calls[p].pc # "idle") ~>
             (calls[p].pc = "done" /\ calls[p].status \in {"returned", "raised"})

\* a children query over two references that raised after 3 + 3 * 2 requests,
\* and a get_films is covered by its first request alone
C27_Witness ==
    /\ calls["c1"].pc = "done" /\ calls["c1"].status = "raised"
    /\ calls["c1"].kind # "films"
    /\ Len(calls["c1"].tasks) = 2 /\ calls["c1"].nreq = 9
    /\ now > 0

====
